---- MODULE Spec2Model ----
(***************************************************************************)
(* Model of the question-answering bot's job queue                         *)
(* (src/src/services/simple-queue.ts), of the /ask command flow that       *)
(* drives it (src/src/commands/ask.ts) and of the retrying QA pipeline     *)
(* (src/src/services/qa-pipeline.ts).                                      *)
(*                                                                         *)
(* Granularity.  JavaScript runs one macrotask to completion, including    *)
(* the microtasks it queues.  An action of the queue model is one such     *)
(* run of a flow up to its next suspension on I/O or on a promise that     *)
(* another flow settles.  `await checkUserRateLimit(..)` in ask.ts awaits  *)
(* an already-resolved promise: the flow yields to the microtasks that     *)
(* other flows have queued, so the check and the following addQAJob are    *)
(* two actions.  When an execution's promise settles, the reaction of the  *)
(* owning processJob call was registered first and runs before any joiner  *)
(* resumes, so settling, clean-up and delivery of the value are one        *)
(* action.                                                                 *)
(***************************************************************************)
EXTENDS Integers, Sequences, FiniteSets, TLC

(* ------------------------------ bounds --------------------------------- *)
\* job identifiers handed out in BurstSpec (one user, one guild)
MaxJobs == 4
\* job identifiers handed out in Spec (several users and scopes)
SpecJobs == 3
NumCallers == 2
\* the clock advances in steps of TickMs, MaxTicks times
TickMs == 60000
MaxTicks == 1
\* addQAJob calls in EnqueueSpec
MaxQueued == 4
\* searchSimilar: namespaces searched, matches returned per namespace
MaxNamespaces == 3
MaxMatches == 2
\* routeQuestion: names in the classifier's list
MaxNames == 4
\* characters of request.question and of the text improveQuestion returns
QuestionLength == 10
ImprovedLength == 17
\* SimpleQueueService objects constructed by /ask invocations
MaxInstances == 4
\* jobs created in the specifications with fairness conditions
HangJobs == 2

(* ---------------------------- constants -------------------------------- *)
adminUserId == "1101695671339335790"
oneMinute == 60 * 1000
maxRequests == 3
adminRemaining == 999

Callers == 1..NumCallers
JobIds == 1..MaxJobs
\* interaction.guild is absent in a direct message
NoGuild == "none"
undefined == "undefined"
\* interaction.user.id and interaction.guild of the commands received
Interactions == {[userId |-> "u1", guild |-> "g1"],
                 [userId |-> adminUserId, guild |-> "g1"]}
BurstInteractions == {[userId |-> "u1", guild |-> "g1"]}
\* options of the addQAJob call in ask.ts: none given
NoOptions == [priority |-> 0, highPriority |-> FALSE]
NoPromise == <<0, 0>>
NoResult == [kind |-> "none", job |-> 0, exec |-> NoPromise]
NoRateLimit == [allowed |-> FALSE, remainingRequests |-> -1, resetTime |-> 0]

VARIABLES
  now,          \* Date.now(), in ms
  created,      \* history: every QAJobData built by addQAJob, by jobId
  queue,        \* SimpleQueueService.queue
  processing,   \* SimpleQueueService.processing: jobId -> promise
  execs,        \* per jobId: the promises returned by executeJob(job)
  isProcessing, \* SimpleQueueService.isProcessing
  pollers,      \* the processNextJob activations suspended in their await
  caller,       \* the flows that use the queue
  persisted,    \* per jobId: pipeline runs that stored messages and usage
  pipe,         \* locals of one processQuestion call
  db,           \* rows written by that processQuestion call
  added,        \* history: the options of every addQAJob call, by jobId
  search,       \* one searchSimilar call: namespace queries and its result
  routing,      \* one routeQuestion call: classifier response and decision
  prepared,     \* one prepareDocumentContext call, made twice on its input
  others        \* the SimpleQueueService objects of earlier /ask invocations

\* the calls of searchSimilar, routeQuestion and prepareDocumentContext
\* studied on their own, and the queue objects that the queue object under
\* study cannot reach
pureVars == <<search, routing, prepared, others>>
\* everything outside processQuestion
queueVars == <<now, created, queue, processing, execs, isProcessing, pollers,
               caller, persisted, added, search, routing, prepared, others>>
pipeVars == <<pipe, db>>
vars == <<now, created, queue, processing, execs, isProcessing, pollers,
          caller, persisted, pipe, db, added, search, routing, prepared,
          others>>

(* ------------------------- helpers on sequences ------------------------ *)
\* variant: the sort puts a job ahead of the jobs of equal priority
RECURSIVE InsertByPriorityUnstable(_, _)
InsertByPriorityUnstable(sorted, job) ==
  IF sorted = <<>> THEN <<job>>
  ELSE IF Head(sorted).priority > job.priority
       THEN <<Head(sorted)>> \o InsertByPriorityUnstable(Tail(sorted), job)
       ELSE <<job>> \o sorted

\* queue.sort((a, b) => (b.priority || 0) - (a.priority || 0)) is stable: one
\* step of the equivalent insertion sort
RECURSIVE InsertByPriority(_, _)
InsertByPriority(sorted, job) ==
  IF sorted = <<>> THEN <<job>>
  ELSE IF Head(sorted).priority >= job.priority
       THEN <<Head(sorted)>> \o InsertByPriority(Tail(sorted), job)
       ELSE <<job>> \o sorted

RECURSIVE SortByPriority(_)
SortByPriority(q) ==
  IF q = <<>> THEN <<>>
  ELSE InsertByPriority(SortByPriority(SubSeq(q, 1, Len(q) - 1)), q[Len(q)])

QueueIds(q) == {q[i].jobId : i \in 1..Len(q)}

Min(a, b) == IF a < b THEN a ELSE b
Max(a, b) == IF a > b THEN a ELSE b

(* ------------------------------ addQAJob ------------------------------- *)
\* variant: highPriority only reorders, the priority value stays 0
JobPriorityIgnoresHigh(options) == options.priority

\* options.priority || (options.highPriority ? 1 : 0); priority 0 stands for
\* an absent priority as well, both are falsy
JobPriority(options) ==
  IF options.priority # 0 THEN options.priority
  ELSE IF options.highPriority THEN 1 ELSE 0

addQAJob(q, data, options, jobId, t) ==
  LET job == [jobId |-> jobId, userId |-> data.userId,
              guildId |-> data.guildId,
              priority |-> JobPriority(options), createdAt |-> t]
      placed == IF options.highPriority THEN <<job>> \o q ELSE Append(q, job)
  IN  SortByPriority(placed)

\* values of options.priority in the addQAJob calls studied
Priorities == {-1, 0, 1, 2}
AddOptions == [priority : Priorities, highPriority : BOOLEAN]

\* one addQAJob(data, options) call on the queue
AddQAJob(options) ==
  /\ Len(created) < MaxQueued
  /\ LET jobId == Len(created) + 1
         data == [userId |-> "u1", guildId |-> "g1"]
         q == addQAJob(queue, data, options, jobId, now)
     IN /\ queue' = q
        /\ created' = Append(created,
                        CHOOSE j \in {q[i] : i \in 1..Len(q)} : j.jobId = jobId)
  /\ added' = Append(added, options)
  /\ UNCHANGED <<now, processing, execs, isProcessing, pollers, caller,
                 persisted, pipe, db, pureVars>>

(* -------------------------- checkUserRateLimit ------------------------- *)
userJobs(userId, guildId) ==
  SelectSeq(queue, LAMBDA job : /\ job.userId = userId
                                /\ job.guildId = guildId
                                /\ (now - job.createdAt) < oneMinute)

processingJobs(userId, guildId) ==
  {jobId \in DOMAIN processing :
     \E i \in 1..Len(queue) : /\ queue[i].jobId = jobId
                              /\ queue[i].userId = userId
                              /\ queue[i].guildId = guildId}

totalJobs(userId, guildId) ==
  Len(userJobs(userId, guildId)) + Cardinality(processingJobs(userId, guildId))

\* variant: the limit is compared with > instead of >=
checkUserRateLimitOffByOne(userId, guildId) ==
  IF userId = adminUserId
  THEN [allowed |-> TRUE, remainingRequests |-> adminRemaining,
        resetTime |-> now + 60000]
  ELSE IF totalJobs(userId, guildId) > maxRequests
       THEN [allowed |-> FALSE, remainingRequests |-> 0,
             resetTime |-> now + oneMinute]
       ELSE [allowed |-> TRUE,
             remainingRequests |-> maxRequests - totalJobs(userId, guildId),
             resetTime |-> now + oneMinute]

\* variant: the operator identity is counted like every other user
checkUserRateLimitNoBypass(userId, guildId) ==
  IF totalJobs(userId, guildId) >= maxRequests
  THEN [allowed |-> FALSE, remainingRequests |-> 0,
        resetTime |-> now + oneMinute]
  ELSE [allowed |-> TRUE,
        remainingRequests |-> maxRequests - totalJobs(userId, guildId),
        resetTime |-> now + oneMinute]

checkUserRateLimit(userId, guildId) ==
  IF userId = adminUserId
  THEN [allowed |-> TRUE, remainingRequests |-> adminRemaining,
        resetTime |-> now + 60000]
  ELSE IF totalJobs(userId, guildId) >= maxRequests
       THEN [allowed |-> FALSE, remainingRequests |-> 0,
             resetTime |-> now + oneMinute]
       ELSE [allowed |-> TRUE,
             remainingRequests |-> maxRequests - totalJobs(userId, guildId),
             resetTime |-> now + oneMinute]

(* ------------------------------ processJob ----------------------------- *)
\* variant: processJob does not look the job up in the in-flight table
InFlightNever(jobId) == FALSE

InFlight(jobId) == jobId \in DOMAIN processing

\* variant: the job is left in the queue when its execution ends
RemoveFromQueueKeep(q, jobId) == q

RemoveFromQueue(q, jobId) == SelectSeq(q, LAMBDA j : j.jobId # jobId)

\* variant: the job stays in the in-flight table after its execution
RemoveFromProcessingKeep(p, jobId) == p

\* this.processing.delete(jobId) (70, 75)
RemoveFromProcessing(p, jobId) ==
  [j \in (DOMAIN p) \ {jobId} |-> p[j]]

\* variant: a call for a job in flight starts a second execution
processJobEnterNoJoin(jobId) ==
  IF jobId \notin QueueIds(queue)
  THEN [kind |-> "null", promise |-> NoPromise]
  ELSE [kind |-> "start", promise |-> <<jobId, Len(execs[jobId]) + 1>>]

\* the part of processJob that runs before its first await
processJobEnter(jobId) ==
  IF InFlight(jobId)
  THEN [kind |-> "join", promise |-> processing[jobId]]
  ELSE IF jobId \notin QueueIds(queue)
       THEN [kind |-> "null", promise |-> NoPromise]
       ELSE [kind |-> "start", promise |-> <<jobId, Len(execs[jobId]) + 1>>]

\* executeJob is called and its promise is put in the in-flight table
StartExecution(jobId) ==
  LET e == processJobEnter(jobId) IN
  IF e.kind = "start"
  THEN /\ execs' = [execs EXCEPT ![jobId] = Append(@, "running")]
       /\ processing' = [j \in (DOMAIN processing) \cup {jobId} |->
                           IF j = jobId THEN e.promise ELSE processing[j]]
  ELSE UNCHANGED <<execs, processing>>

\* variant: waiting counts only the jobs that are not in flight
getQueueStatsPendingOnly ==
  [waiting |-> Len(queue) - Cardinality(DOMAIN processing),
   active |-> Cardinality(DOMAIN processing), completed |-> 0, failed |-> 0]

\* getQueueStats (144-156)
getQueueStats ==
  [waiting |-> Len(queue), active |-> Cardinality(DOMAIN processing),
   completed |-> 0, failed |-> 0]

(* --------------------- searchSimilar (pinecone.ts) --------------------- *)
\* scores and confidences are in hundredths: 0.02 is 2, 0.3 is 30, 1.0 is 100
defaultTopK == 5
defaultMinScore == 2
\* scores below, at and above the default minScore
Scores == {1, 2, 81}
SeqsUpTo(S, n) == UNION {[1..k -> S] : k \in 0..n}
\* what index.query of one namespace does: it throws, or returns matches
QueryResults == [throws : BOOLEAN, scores : SeqsUpTo(Scores, MaxMatches)]
SearchInputs == {r \in SeqsUpTo(QueryResults, MaxNamespaces) :
                   /\ Len(r) >= 1
                   /\ \A n \in 1..Len(r) : r[n].throws => r[n].scores = <<>>}
\* in processQuestion each query throws, finds nothing, or returns a match
\* above the floor followed by one at the floor or below it
PipelineSearches ==
  {r \in SearchInputs :
     \A n \in 1..Len(r) : r[n].scores \in {<<>>, <<81, 2>>, <<81, 1>>}}
NoSearch == [called |-> FALSE, results |-> <<>>, topK |-> 0, minScore |-> 0,
             out |-> [rejected |-> FALSE, settled |-> 0, matches |-> <<>>]]

\* variant: the query of a namespace is not wrapped in try/catch
namespaceQueryNoCatch(ns, r) ==
  [rejected |-> r.throws,
   matches |-> [i \in 1..Len(r.scores) |->
                  [namespace |-> ns, index |-> i, score |-> r.scores[i]]]]

\* one element of namespaceQueries (159-186): the promise is fulfilled with
\* the matches tagged with their namespace, or with [] when query throws
namespaceQuery(ns, r) ==
  [rejected |-> FALSE,
   matches |-> IF r.throws THEN <<>>
               ELSE [i \in 1..Len(r.scores) |->
                       [namespace |-> ns, index |-> i, score |-> r.scores[i]]]]

\* namespaceResults.flat()
RECURSIVE Flat(_)
Flat(ss) == IF ss = <<>> THEN <<>> ELSE Head(ss) \o Flat(Tail(ss))

\* allMatches.sort((a, b) => b.score - a.score) is stable: one step of the
\* equivalent insertion sort
RECURSIVE InsertByScore(_, _)
InsertByScore(sorted, m) ==
  IF sorted = <<>> THEN <<m>>
  ELSE IF Head(sorted).score >= m.score
       THEN <<Head(sorted)>> \o InsertByScore(Tail(sorted), m)
       ELSE <<m>> \o sorted

\* variant: the merged list is left in the order of the namespaces
SortByScoreNone(ms) == ms

RECURSIVE SortByScore(_)
SortByScore(ms) ==
  IF ms = <<>> THEN <<>>
  ELSE InsertByScore(SortByScore(SubSeq(ms, 1, Len(ms) - 1)), ms[Len(ms)])

\* variant: the merged list is not truncated
SliceAll(ms, topK) == ms

\* allMatches.slice(0, topK)
Slice(ms, topK) == SubSeq(ms, 1, Min(topK, Len(ms)))

\* variant: no floor is applied
FilterMinScoreNone(ms, minScore) == ms

\* topMatches.filter(match => match.score >= minScore)
FilterMinScore(ms, minScore) == SelectSeq(ms, LAMBDA m : m.score >= minScore)

\* searchSimilar (103-204): Promise.all over the namespace queries, then the
\* merge; a rejected query would reject Promise.all and be rethrown
searchSimilar(results, topK, minScore) ==
  LET queries == [n \in 1..Len(results) |-> namespaceQuery(n, results[n])]
      allMatches == Flat([n \in 1..Len(queries) |-> queries[n].matches])
  IN IF \E n \in 1..Len(queries) : queries[n].rejected
     THEN [rejected |-> TRUE, settled |-> 0, matches |-> <<>>]
     ELSE [rejected |-> FALSE, settled |-> Len(queries),
           matches |-> FilterMinScore(Slice(SortByScore(allMatches), topK),
                                      minScore)]

\* one searchSimilar call with the namespaces, topK and minScore given
SearchSimilarCall(results, topK, minScore) ==
  /\ ~search.called
  /\ search' = [called |-> TRUE, results |-> results, topK |-> topK,
                minScore |-> minScore,
                out |-> searchSimilar(results, topK, minScore)]
  /\ UNCHANGED <<now, created, queue, processing, execs, isProcessing, pollers,
                 caller, persisted, pipe, db, added, routing, prepared,
                 others>>

\* the caller has the matches
SearchReturn ==
  /\ search.called
  /\ search' = NoSearch
  /\ UNCHANGED <<now, created, queue, processing, execs, isProcessing, pollers,
                 caller, persisted, pipe, db, added, routing, prepared,
                 others>>

SearchNext ==
  \/ \E results \in SearchInputs, topK \in {1, defaultTopK},
        minScore \in {defaultMinScore, 50} :
        SearchSimilarCall(results, topK, minScore)
  \/ SearchReturn

(* ------------------- routeQuestion (namespace-router.ts) --------------- *)
\* the keys of unitMappings
Catalog == {"unit-1", "unit-2", "unit-3", "unit-4", "unit-5", "unit-6",
            "unit-7", "unit-8", "unit-9"}
\* names the classifier puts in its namespaces list
ClassifierNames == {"unit-1", "unit-3", "unit-9", "unit-10"}
\* values of the confidence field of the classifier's JSON
ClassifierConfidences == {-50, 0, 80, 150}
\* outcomes of createChatCompletion in routeQuestion: the call fails, the
\* content holds no {...}, JSON.parse throws, namespaces is missing or not
\* an array, or the JSON carries a list of names
\* numeric is FALSE when the confidence field holds a JSON string that is not a
\* number, such as "high": a truthy value that Math.max converts to NaN
RouterResponses ==
  [kind : {"callFails", "noJson", "badJson", "notArray"}, namespaces : {<<>>},
   hasConfidence : {FALSE}, numeric : {TRUE}, confidence : {0}]
  \cup [kind : {"json"}, namespaces : SeqsUpTo(ClassifierNames, MaxNames),
        hasConfidence : {TRUE}, numeric : {TRUE},
        confidence : ClassifierConfidences]
  \cup [kind : {"json"}, namespaces : SeqsUpTo(ClassifierNames, MaxNames),
        hasConfidence : {TRUE}, numeric : {FALSE}, confidence : {0}]
  \cup [kind : {"json"}, namespaces : SeqsUpTo(ClassifierNames, MaxNames),
        hasConfidence : {FALSE}, numeric : {TRUE}, confidence : {0}]
\* a decision: confidenceIsNaN tells that the confidence is NaN, and then the
\* confidence field carries no number
NoRouting == [called |-> FALSE, response |-> [kind |-> "none"],
              out |-> [namespaces |-> <<>>, reasoning |-> "", confidence |-> 0,
                       confidenceIsNaN |-> FALSE]]


\* variant: the parse fallback has confidence 0.5
parseFallbackHalf ==
  [namespaces |-> <<"unit-3">>,
   reasoning |-> "Fallback to product research due to parsing error",
   confidence |-> 50, confidenceIsNaN |-> FALSE]

\* the catch block of parseRoutingResponse (130-138)
parseFallback ==
  [namespaces |-> <<"unit-3">>,
   reasoning |-> "Fallback to product research due to parsing error",
   confidence |-> 30, confidenceIsNaN |-> FALSE]

\* the catch block of routeQuestion (47-55)
routeFallback ==
  [namespaces |-> <<"unit-3">>,
   reasoning |-> "Fallback to product research due to routing error",
   confidence |-> 30, confidenceIsNaN |-> FALSE]

\* parseRoutingResponse (98-139)
parseRoutingResponse(response) ==
  IF response.kind # "json" THEN parseFallback
  ELSE LET validNamespaces ==
             SelectSeq(response.namespaces, LAMBDA ns : ns \in Catalog)
           \* parsed.confidence || 0.5: absent and 0 are falsy
           given == IF response.hasConfidence /\ response.confidence # 0
                    THEN response.confidence ELSE 50
           \* Math.max of a string that is no number is NaN, and so is
           \* Math.min of NaN
           isNaN == response.hasConfidence /\ ~response.numeric
       IN IF Len(validNamespaces) = 0 THEN parseFallback
          ELSE [namespaces |-> validNamespaces,
                reasoning |-> "parsed.reasoning",
                confidence |-> IF isNaN THEN 0 ELSE Min(Max(given, 0), 100),
                confidenceIsNaN |-> isNaN]

\* routeQuestion (29-56)
routeQuestion(response) ==
  IF response.kind = "callFails" THEN routeFallback
  ELSE parseRoutingResponse(response)

\* one routeQuestion call
RouteQuestionCall(response) ==
  /\ ~routing.called
  /\ routing' = [called |-> TRUE, response |-> response,
                 out |-> routeQuestion(response)]
  /\ UNCHANGED <<now, created, queue, processing, execs, isProcessing, pollers,
                 caller, persisted, pipe, db, added, search, prepared,
                 others>>

\* the caller has the decision
RouteReturn ==
  /\ routing.called
  /\ routing' = NoRouting
  /\ UNCHANGED <<now, created, queue, processing, execs, isProcessing, pollers,
                 caller, persisted, pipe, db, added, search, prepared,
                 others>>

RouterNext ==
  \/ \E response \in RouterResponses : RouteQuestionCall(response)
  \/ RouteReturn

(* ---------------- prepareDocumentContext (qa-pipeline.ts) -------------- *)
\* a string is modelled as the sequence of the pieces it is made of
noContentFound == <<"No relevant course content found.">>
\* metadata.title, metadata.text and metadata.description of a match: ""
\* stands for a field that is missing or empty (both are falsy)
Titles == {"", "Title"}
Texts == {"", "Text"}
Descriptions == {"", "Description"}
DocumentMatches ==
  [title : Titles, text : Texts, description : Descriptions, score : Scores]
DocumentInputs == SeqsUpTo(DocumentMatches, MaxMatches)
NoPrepared == [called |-> FALSE, searchResults |-> <<>>, first |-> <<>>,
               second |-> <<>>]

\* (result.score * 100).toFixed(1) of a score given in hundredths
toFixed1(score) == <<ToString(score), ".0">>

\* the template literal of one search result (301-306)
documentBlock(result, index) ==
  LET title == IF result.title # "" THEN <<result.title>>
               ELSE <<"Source ", ToString(index)>>
      content == IF result.text # "" THEN result.text
                 ELSE IF result.description # "" THEN result.description
                      ELSE ""
  IN <<"[">> \o title \o <<"] (Relevance: ">> \o toFixed1(result.score)
       \o <<"%)\n", content>>

\* searchResults.map(...).join('\n\n')
joinBlocks(searchResults) ==
  Flat([i \in 1..Len(searchResults) |->
          (IF i = 1 THEN <<>> ELSE <<"\n\n">>)
            \o documentBlock(searchResults[i], i)])

\* variant: no sentinel, the empty list is joined like any other
prepareDocumentContextNoSentinel(searchResults) == joinBlocks(searchResults)

\* prepareDocumentContext (295-308)
prepareDocumentContext(searchResults) ==
  IF Len(searchResults) = 0 THEN noContentFound
  ELSE joinBlocks(searchResults)

\* prepareDocumentContext is applied twice to the same search results; it
\* reads its argument only and assigns no field
PrepareDocumentContext(searchResults) ==
  /\ ~prepared.called
  /\ prepared' = [called |-> TRUE, searchResults |-> searchResults,
                  first |-> prepareDocumentContext(searchResults),
                  second |-> prepareDocumentContext(searchResults)]
  /\ UNCHANGED <<now, created, queue, processing, execs, isProcessing, pollers,
                 caller, persisted, pipe, db, added, search, routing,
                 others>>

\* the caller has the string
PrepareReturn ==
  /\ prepared.called
  /\ prepared' = NoPrepared
  /\ UNCHANGED <<now, created, queue, processing, execs, isProcessing, pollers,
                 caller, persisted, pipe, db, added, search, routing,
                 others>>

PrepareNext ==
  \/ \E searchResults \in DocumentInputs : PrepareDocumentContext(searchResults)
  \/ PrepareReturn

(* --------------------- processQuestion (qa-pipeline.ts) ---------------- *)
maxRetries == 3
improveMaxRetries == 2
improveDelayMs == 500
backoffBaseMs == 1000
backoffCapMs == 5000

\* messages of the errors thrown by createEmbedding and createChatCompletion
ErrorMessages == {"E1", "E2"}
NoError == [isError |-> FALSE, message |-> ""]
Requests == [contextMemory : BOOLEAN, guildId : BOOLEAN, channelId : BOOLEAN]
NoRequest == [contextMemory |-> FALSE, guildId |-> FALSE, channelId |-> FALSE]
NoOutcome == [kind |-> "none"]
\* values of the confidence field in the validation model's JSON output
ModelConfidences == {-50, 80, 150}
\* outcomes of the validation call: it fails, its content does not parse, or
\* it parses to an object with or without a confidence
Evaluations ==
  [kind : {"callFails", "badJson"}, hasConfidence : {FALSE}, confidence : {0}]
  \cup [kind : {"json"}, hasConfidence : {FALSE}, confidence : {0}]
  \cup [kind : {"json"}, hasConfidence : {TRUE}, confidence : ModelConfidences]

\* per stage, the attempt whose run of the stage made the value the attempt
\* holds (improvedQuestion, routing, questionEmbedding, searchResults); 0: none
NoOutputs == [improve |-> 0, route |-> 0, embed |-> 0, search |-> 0]
IdlePipe == [stage |-> "idle", request |-> NoRequest, attempt |-> 0,
             improveTry |-> 0, improved |-> FALSE, conversationId |-> "none",
             sources |-> <<>>, confidence |-> 0,
             delayMs |-> 0, outcome |-> NoOutcome,
             \* history of the call
             failures |-> 0, lastThrown |-> NoError, storeCalls |-> 0,
             logCalls |-> 0, outputs |-> NoOutputs, improveFailed |-> 0,
             cut |-> FALSE,
             \* every namespace query of the attempt's search threw
             searchFailed |-> FALSE,
             \* what the validation call of the attempt did
             evaluated |-> "none",
             \* the conversation that received the two messages
             storedIn |-> "none",
             \* the attempt whose run made conversationContext and
             \* documentContext, and the one that made answerResponse; 0: none
             contextOf |-> 0, answerOf |-> 0,
             \* the counters declared before the loop (61-63)
             embeddingTokens |-> 0, promptTokens |-> 0,
             completionTokens |-> 0,
             \* history: the estimate added by every embedding step
             embedLog |-> <<>>]
EmptyDb == [conversations |-> 0, messages |-> 0, usageLogs |-> 0]

\* error instanceof Error ? error.message : 'Unknown error'
errorMessage(error) ==
  IF error.isError THEN error.message ELSE "Unknown error"

\* new Error(`Failed to process question after ${maxRetries} attempts: ...`)
exhaustedError(error) ==
  [kind |-> "error", text |-> "Failed to process question after",
   attempts |-> maxRetries, cause |-> errorMessage(error)]

unexpectedEndError ==
  [kind |-> "error", text |-> "Unexpected end of retry loop", attempts |-> 0,
   cause |-> ""]

\* variant: the last attempt is recognised one attempt too late
IsFinalAttemptLate(attempt) == attempt > maxRetries

IsFinalAttempt(attempt) == attempt = maxRetries

RECURSIVE Pow2(_)
Pow2(n) == IF n = 0 THEN 1 ELSE 2 * Pow2(n - 1)

\* variant: the same delay after every failed attempt
backoffDelayFlat(attempt) == backoffBaseMs

\* Math.min(1000 * Math.pow(2, attempt - 1), 5000) (182)
backoffDelay(attempt) == Min(backoffBaseMs * Pow2(attempt - 1), backoffCapMs)

\* variant: the catch block logs usage for the failed attempt
catchWritesLogsUsage(d) == [d EXCEPT !.usageLogs = @ + 1]

\* rows written by the catch block of processQuestion (173-185): none
catchWrites(d) == d

\* variant: the error is swallowed and the attempt goes on to persist
catchSwallows(p, error) == [p EXCEPT !.stage = "store"]

\* the catch block of processQuestion
catch(p, error) ==
  LET q == [p EXCEPT !.failures = @ + 1, !.lastThrown = error] IN
  IF IsFinalAttempt(p.attempt)
  THEN [q EXCEPT !.stage = "failed", !.outcome = exhaustedError(error)]
  ELSE [q EXCEPT !.stage = "backoff", !.delayMs = backoffDelay(p.attempt)]

\* variant: the values of the previous attempt are still held
freshAttemptKeep(p) == p

\* the locals declared inside the try block (73-131) are new in every
\* iteration of the loop
freshAttempt(p) ==
  [p EXCEPT !.improved = FALSE, !.conversationId = "none", !.sources = <<>>,
            !.confidence = 0, !.outputs = NoOutputs, !.improveFailed = 0,
            !.cut = FALSE, !.searchFailed = FALSE, !.evaluated = "none",
            !.contextOf = 0, !.answerOf = 0]

\* variant: improveQuestionWithRetry rethrows the failure of its last try
improveGiveUpThrows(p) ==
  catch([p EXCEPT !.improveFailed = @ + 1],
        [isError |-> TRUE, message |-> "E1"])

\* improveQuestionWithRetry 209-212: the last try failed, return question
improveGiveUp(p) ==
  [p EXCEPT !.stage = "route", !.improved = FALSE, !.improveFailed = @ + 1,
            !.outputs.improve = p.attempt]

\* a caller invokes processQuestion(request)
ProcessQuestion(request) ==
  /\ pipe.stage = "idle"
  /\ pipe' = [IdlePipe EXCEPT !.stage = "loop", !.request = request]
  /\ db' = EmptyDb
  /\ UNCHANGED queueVars

\* while (attempt < maxRetries) { try { attempt++ ...; after the loop: throw
BeginAttempt ==
  /\ pipe.stage = "loop"
  /\ pipe' = IF pipe.attempt < maxRetries
             THEN [freshAttempt(pipe) EXCEPT !.stage = "improve",
                                             !.attempt = @ + 1,
                                             !.improveTry = 1]
             ELSE [pipe EXCEPT !.stage = "failed",
                               !.outcome = unexpectedEndError]
  /\ UNCHANGED <<db>>
  /\ UNCHANGED queueVars

\* improveQuestionWithRetry (201-220): one call of openai.improveQuestion
ImproveQuestion(ok) ==
  /\ pipe.stage = "improve"
  /\ pipe' = IF ok
             THEN [pipe EXCEPT !.stage = "route", !.improved = TRUE,
                               !.outputs.improve = pipe.attempt]
             ELSE IF pipe.improveTry = improveMaxRetries
                  THEN improveGiveUp(pipe)
                  ELSE [pipe EXCEPT !.stage = "improveDelay",
                                    !.improveFailed = @ + 1,
                                    !.delayMs = improveDelayMs]
  /\ UNCHANGED <<db>>
  /\ UNCHANGED queueVars

\* the 500 ms timer of improveQuestionWithRetry fires
ImproveRetry ==
  /\ pipe.stage = "improveDelay"
  /\ pipe' = [pipe EXCEPT !.stage = "improve", !.improveTry = @ + 1,
                          !.delayMs = 0]
  /\ UNCHANGED <<db>>
  /\ UNCHANGED queueVars

\* router.routeQuestion (77): it catches its own failures
RouteQuestion ==
  /\ pipe.stage = "route"
  /\ pipe' = [pipe EXCEPT !.stage = "embed", !.outputs.route = pipe.attempt]
  /\ UNCHANGED <<db>>
  /\ UNCHANGED queueVars

\* variant: the estimate is rounded down
estimateTokenCountFloor(length) == length \div 4

\* estimateTokenCount (openai.ts 396-399): Math.ceil(text.length / 4)
estimateTokenCount(length) == (length + 3) \div 4

\* improvedQuestion.length: improvement.content when the improvement
\* succeeded, the question itself when it did not (204, 211)
improvedQuestionLength(p) ==
  IF p.improved THEN ImprovedLength ELSE QuestionLength

\* answerResponse.usage of a generation call
GenerationUsage == [prompt_tokens |-> 120, completion_tokens |-> 40]

\* openai.createEmbedding (82-83): rethrows what the API call throws; the
\* estimate is added to the counter of the whole call
CreateEmbedding(ok, message) ==
  /\ pipe.stage = "embed"
  /\ pipe' = IF ok THEN [pipe EXCEPT !.stage = "search",
                          !.embeddingTokens =
                             @ + estimateTokenCount(improvedQuestionLength(pipe)),
                          !.embedLog =
                             Append(@, estimateTokenCount(
                                         improvedQuestionLength(pipe))),
                          !.outputs.embed = pipe.attempt]
             ELSE catch(pipe, [isError |-> TRUE, message |-> message])
  /\ db' = IF ok THEN db ELSE catchWrites(db)
  /\ UNCHANGED queueVars

\* pinecone.searchSimilar (86-90) with topK 5 and minScore 0.02 over the
\* namespaces of the routing decision; a rejection would be caught at 173
SearchSimilar(results) ==
  /\ pipe.stage = "search"
  /\ LET out == searchSimilar(results, 5, 2) IN
     /\ pipe' = IF out.rejected
                THEN catch(pipe, [isError |-> TRUE, message |-> "E1"])
                ELSE [pipe EXCEPT !.stage = "context",
                        !.sources = [i \in 1..Len(out.matches) |->
                                       out.matches[i].score],
                        !.cut = Len(Flat([n \in 1..Len(results) |->
                                            results[n].scores])) > 5,
                        !.searchFailed =
                           \A n \in 1..Len(results) : results[n].throws,
                        !.outputs.search = pipe.attempt]
     /\ db' = IF out.rejected THEN catchWrites(db) ELSE db
  /\ UNCHANGED queueVars

\* getConversationContext (94-107, 222-283): a conversation is found or not
GetConversationContext(found) ==
  /\ pipe.stage = "context"
  /\ pipe' = [pipe EXCEPT !.stage = "generate",
                !.contextOf = pipe.attempt,
                !.conversationId =
                   IF pipe.request.contextMemory /\ pipe.request.guildId /\ found
                   THEN "existing" ELSE "none"]
  /\ UNCHANGED <<db>>
  /\ UNCHANGED queueVars

\* generateAnswer (113-124): rethrows what createChatCompletion throws
GenerateAnswer(ok, message) ==
  /\ pipe.stage = "generate"
  /\ pipe' = IF ok THEN [pipe EXCEPT !.stage = "validate",
                          !.promptTokens = @ + GenerationUsage.prompt_tokens,
                          !.completionTokens =
                             @ + GenerationUsage.completion_tokens,
                          !.answerOf = pipe.attempt]
             ELSE catch(pipe, [isError |-> TRUE, message |-> message])
  /\ db' = IF ok THEN db ELSE catchWrites(db)
  /\ UNCHANGED queueVars

\* variant: content that does not parse gives confidence 0
validateAnswerZero(evaluation) ==
  IF evaluation.kind = "callFails" THEN 50
  ELSE IF evaluation.kind = "json" /\ evaluation.hasConfidence
       THEN evaluation.confidence ELSE 0

\* the confidence returned by openai.validateAnswer (openai.ts 370-392):
\* evaluation.confidence || 0 when the content parses, 0.5 when it does not
\* or when the call fails
validateAnswer(evaluation) ==
  IF evaluation.kind # "json" THEN 50
  ELSE IF evaluation.hasConfidence THEN evaluation.confidence ELSE 0

\* openai.validateAnswer (127-131): it catches its own failures
ValidateAnswer(evaluation) ==
  /\ pipe.stage = "validate"
  /\ pipe' = [pipe EXCEPT !.stage = "store",
                          !.confidence = validateAnswer(evaluation),
                          !.evaluated = evaluation.kind]
  /\ UNCHANGED <<db>>
  /\ UNCHANGED queueVars

\* storeConversation (346-407): creates the conversation when none was
\* found, then inserts the two messages; every failure is caught
storeConversation(d, existing, conversationOk, inserted) ==
  IF existing
  THEN [d EXCEPT !.messages = @ + inserted]
  ELSE IF conversationOk
       THEN [d EXCEPT !.conversations = @ + 1, !.messages = @ + inserted]
       ELSE d

\* the conversation storeConversation inserts the messages into (352-384):
\* the one passed in, or the one it creates
storedConversation(existing, conversationOk, inserted) ==
  IF inserted = 0 THEN "none"
  ELSE IF existing THEN "existing"
       ELSE IF conversationOk THEN "new" ELSE "none"

\* step 9 (133-140)
StoreConversation(conversationOk, inserted) ==
  /\ pipe.stage = "store"
  /\ IF pipe.request.contextMemory /\ pipe.request.guildId
        /\ pipe.request.channelId
     THEN /\ db' = storeConversation(db, pipe.conversationId # "none",
                                     conversationOk, inserted)
          /\ pipe' = [pipe EXCEPT !.stage = "log", !.storeCalls = @ + 1,
                        !.storedIn =
                           storedConversation(pipe.conversationId # "none",
                                              conversationOk, inserted)]
     ELSE /\ db' = db
          /\ pipe' = [pipe EXCEPT !.stage = "log"]
  /\ UNCHANGED queueVars

\* logUsage (409-440): one insert into usage_logs; every failure is caught
logUsage(d, ok) == IF ok THEN [d EXCEPT !.usageLogs = @ + 1] ELSE d

\* variant: a failure inside logUsage reaches the catch of processQuestion
logUsageRethrows(p, ok) ==
  IF ok THEN p ELSE catch(p, [isError |-> TRUE, message |-> "E2"])

\* the catch of logUsage (437-439) logs the error and returns: processQuestion
\* goes on whether the insert succeeded or not
logUsageCatch(p, ok) == p

\* step 10 and the return (143-171)
LogUsage(ok) ==
  /\ pipe.stage = "log"
  /\ db' = logUsage(db, ok)
  /\ LET q == logUsageCatch([pipe EXCEPT !.logCalls = @ + 1], ok) IN
     pipe' = IF q.stage # "log" THEN q
             ELSE [q EXCEPT !.stage = "done",
                            !.outcome = [kind |-> "result",
                                         confidence |-> pipe.confidence,
                                         sources |-> pipe.sources,
                                         conversationId |->
                                            pipe.conversationId,
                                         usage |->
                                           [promptTokens |-> pipe.promptTokens,
                                            completionTokens |->
                                               pipe.completionTokens,
                                            totalTokens |->
                                               pipe.promptTokens
                                                 + pipe.completionTokens,
                                            embeddingTokens |->
                                               pipe.embeddingTokens]]]
  /\ UNCHANGED queueVars

\* the backoff timer fires (181-184)
Backoff ==
  /\ pipe.stage = "backoff"
  /\ pipe' = [pipe EXCEPT !.stage = "loop", !.delayMs = 0]
  /\ UNCHANGED <<db>>
  /\ UNCHANGED queueVars

\* the caller has the outcome; the next question may be asked
PipelineReturn ==
  /\ pipe.stage \in {"done", "failed"}
  /\ pipe' = IdlePipe
  /\ db' = EmptyDb
  /\ UNCHANGED queueVars

PipelineNext ==
  \/ \E request \in Requests : ProcessQuestion(request)
  \/ BeginAttempt
  \/ \E ok \in BOOLEAN : ImproveQuestion(ok)
  \/ ImproveRetry
  \/ RouteQuestion
  \/ \E ok \in BOOLEAN, m \in ErrorMessages : CreateEmbedding(ok, m)
  \/ \E results \in PipelineSearches : SearchSimilar(results)
  \/ \E found \in BOOLEAN : GetConversationContext(found)
  \/ \E ok \in BOOLEAN, m \in ErrorMessages : GenerateAnswer(ok, m)
  \/ \E evaluation \in Evaluations : ValidateAnswer(evaluation)
  \/ \E conversationOk \in BOOLEAN, inserted \in 0..2 :
        StoreConversation(conversationOk, inserted)
  \/ \E ok \in BOOLEAN : LogUsage(ok)
  \/ Backoff
  \/ PipelineReturn

(* ------------------------------ the flows ------------------------------ *)
IdleCaller == [pc |-> "idle", userId |-> undefined, guildId |-> undefined,
               rateLimit |-> NoRateLimit, jobId |-> 0, promise |-> NoPromise,
               owner |-> FALSE, result |-> NoResult]

Init ==
  /\ now = 0
  /\ created = <<>>
  /\ queue = <<>>
  /\ processing = <<>>
  /\ execs = [j \in JobIds |-> <<>>]
  /\ isProcessing = FALSE
  /\ pollers = {}
  /\ caller = [c \in Callers |-> IdleCaller]
  /\ persisted = [j \in JobIds |-> 0]
  /\ pipe = IdlePipe
  /\ db = EmptyDb
  /\ added = <<>>
  /\ search = NoSearch
  /\ routing = NoRouting
  /\ prepared = NoPrepared
  /\ others = <<>>

\* ask.ts 33-52: await queueService.checkUserRateLimit(user.id,
\* guild?.id || 'dm'); when refused the flow sends the rate-limit embed
AskCheck(c, i) ==
  /\ caller[c].pc = "idle"
  /\ LET scope == IF i.guild = NoGuild THEN "dm" ELSE i.guild
         rateLimit == checkUserRateLimit(i.userId, scope)
     IN caller' = [caller EXCEPT ![c] =
          [IdleCaller EXCEPT !.pc = IF rateLimit.allowed THEN "checked"
                                    ELSE "rejected",
                             !.userId = i.userId, !.guildId = i.guild,
                             !.rateLimit = rateLimit]]
  /\ UNCHANGED <<now, created, queue, processing, execs, isProcessing, pollers,
                 persisted, pipe, db, added, pureVars>>

\* ask.ts 54-75: addQAJob, then the flow awaits interaction.editReply; of its
\* locals only jobId is read from here on
AskEnqueue(c, cap) ==
  /\ caller[c].pc = "checked"
  /\ Len(created) < cap
  /\ LET jobId == Len(created) + 1
         data == [userId |-> caller[c].userId,
                  guildId |-> IF caller[c].guildId = NoGuild THEN undefined
                              ELSE caller[c].guildId]
         q == addQAJob(queue, data, NoOptions, jobId, now)
     IN /\ queue' = q
        /\ created' = Append(created,
                        CHOOSE j \in {q[i] : i \in 1..Len(q)} : j.jobId = jobId)
        /\ caller' = [caller EXCEPT ![c] =
             [IdleCaller EXCEPT !.pc = "enqueued", !.jobId = jobId]]
  /\ added' = Append(added, NoOptions)
  /\ UNCHANGED <<now, processing, execs, isProcessing, pollers, persisted,
                 pipe, db, pureVars>>

\* a caller's processJob(jobId) up to its await
CallerProcessJob(c, jobId) ==
  LET e == processJobEnter(jobId) IN
  /\ StartExecution(jobId)
  /\ caller' = [caller EXCEPT ![c] =
       IF e.kind = "null"
       THEN [IdleCaller EXCEPT !.pc = "returned", !.jobId = jobId,
                               !.result = [kind |-> "null", job |-> jobId,
                                           exec |-> NoPromise]]
       ELSE [IdleCaller EXCEPT !.pc = "awaitJob", !.jobId = jobId,
                               !.promise = e.promise,
                               !.owner = (e.kind = "start")]]

\* ask.ts 78: const result = await queueService.processJob(jobId)
AskProcessJob(c) ==
  /\ caller[c].pc = "enqueued"
  /\ CallerProcessJob(c, caller[c].jobId)
  /\ UNCHANGED <<now, created, queue, isProcessing, pollers, persisted, pipe, db, added, pureVars>>

\* ask.ts 75, 155-171: editReply throws, the catch block replies, and
\* processJob is never called for the job that was enqueued
AskAbort(c) ==
  /\ caller[c].pc = "enqueued"
  /\ caller' = [caller EXCEPT ![c].pc = "returned"]
  /\ UNCHANGED <<now, created, queue, processing, execs, isProcessing, pollers,
                 persisted, pipe, db, added, pureVars>>

\* a processJob call on any identifier handed out so far (public method)
ProcessJob(c, jobId) ==
  /\ caller[c].pc = "idle"
  /\ jobId \in 1..Len(created)
  /\ CallerProcessJob(c, jobId)
  /\ UNCHANGED <<now, created, queue, isProcessing, pollers, persisted, pipe, db, added, pureVars>>

\* the flow ends (reply sent); its locals are dropped
Return(c) ==
  /\ caller[c].pc \in {"rejected", "returned"}
  /\ caller' = [caller EXCEPT ![c] = IdleCaller]
  /\ UNCHANGED <<now, created, queue, processing, execs, isProcessing, pollers,
                 persisted, pipe, db, added, pureVars>>

\* variant: the poller never starts a job
PollerSkipsAlways == TRUE

\* variant: the poller does not look whether the head job is in flight
PollerSkipsNoHeadCheck ==
  \/ isProcessing
  \/ Len(queue) = 0

\* the guards of processNextJob (105-112)
PollerSkips ==
  \/ isProcessing
  \/ Len(queue) = 0
  \/ InFlight(queue[1].jobId)

\* setInterval callback (98-102): processNextJob up to its await
PollerTick ==
  /\ IF PollerSkips
     THEN UNCHANGED <<processing, execs, isProcessing, pollers>>
     ELSE LET nextJob == queue[1]
              e == processJobEnter(nextJob.jobId)
          IN /\ isProcessing' = TRUE
             /\ StartExecution(nextJob.jobId)
             /\ pollers' = pollers \cup
                  {[jobId |-> nextJob.jobId, promise |-> e.promise,
                    owner |-> (e.kind = "start")]}
  /\ UNCHANGED <<now, created, queue, caller, persisted, pipe, db, added, pureVars>>

\* the processJob calls that created promise p and clean up after it
Owned(p) ==
  \/ \E c \in Callers : /\ caller[c].pc = "awaitJob"
                        /\ caller[c].promise = p
                        /\ caller[c].owner
  \/ \E a \in pollers : a.promise = p /\ a.owner

\* qaPipeline.processQuestion settles inside executeJob (81-96): the promise
\* of executeJob settles, the owning processJob cleans up (69-78), every
\* awaiting processJob call returns or throws, processNextJob's finally runs
Settle(p, ok) ==
  /\ p[1] \in JobIds
  /\ p[2] \in 1..Len(execs[p[1]])
  /\ execs[p[1]][p[2]] = "running"
  /\ LET jobId == p[1]
         value == [kind |-> IF ok THEN "ok" ELSE "error", job |-> jobId,
                   exec |-> p]
         woken == {a \in pollers : a.promise = p}
     IN /\ execs' = [execs EXCEPT ![jobId][p[2]] =
                       IF ok THEN "fulfilled" ELSE "rejected"]
        /\ persisted' = [persisted EXCEPT ![jobId] = IF ok THEN @ + 1 ELSE @]
        /\ processing' = IF Owned(p)
                         THEN RemoveFromProcessing(processing, jobId)
                         ELSE processing
        /\ queue' = IF Owned(p) THEN RemoveFromQueue(queue, jobId) ELSE queue
        /\ caller' = [c \in Callers |->
             IF caller[c].pc = "awaitJob" /\ caller[c].promise = p
             THEN [caller[c] EXCEPT !.pc = "returned", !.result = value,
                                    !.promise = NoPromise, !.owner = FALSE]
             ELSE caller[c]]
        /\ pollers' = pollers \ woken
        /\ isProcessing' = IF woken # {} THEN FALSE ELSE isProcessing
  /\ UNCHANGED <<now, created, pipe, db, added, pureVars>>

\* an external call awaited inside processQuestion (OpenAI, Pinecone,
\* Supabase) never returns: none of the awaits of executeJob (81-96) or of
\* processQuestion has a timeout, so the promise of executeJob stays pending
ExternalCallHangs(p) ==
  /\ p[1] \in JobIds
  /\ p[2] \in 1..Len(execs[p[1]])
  /\ execs[p[1]][p[2]] = "running"
  /\ execs' = [execs EXCEPT ![p[1]][p[2]] = "hung"]
  /\ UNCHANGED <<now, created, queue, processing, isProcessing, pollers,
                 caller, persisted, pipe, db, added, pureVars>>

Tick ==
  /\ now < MaxTicks * TickMs
  /\ now' = now + TickMs
  /\ UNCHANGED <<created, queue, processing, execs, isProcessing, pollers,
                 caller, persisted, pipe, db, added, pureVars>>

QueueNext(interactions, cap) ==
  \/ \E c \in Callers, i \in interactions : AskCheck(c, i)
  \/ \E c \in Callers : AskEnqueue(c, cap)
  \/ \E c \in Callers : AskProcessJob(c)
  \/ \E c \in Callers : AskAbort(c)
  \/ \E c \in Callers, jobId \in JobIds : ProcessJob(c, jobId)
  \/ \E c \in Callers : Return(c)
  \/ PollerTick
  \/ \E p \in JobIds \X (1..(NumCallers + 1)), ok \in BOOLEAN : Settle(p, ok)
  \/ Tick

Next == QueueNext(Interactions, SpecJobs)

Spec == Init /\ [][Next]_vars

BurstNext == QueueNext(BurstInteractions, MaxJobs)

\* the same queue, driven by one user in one guild, with one more job
BurstSpec == Init /\ [][BurstNext]_vars

Promises == JobIds \X (1..(NumCallers + 1))

FairNext == QueueNext(BurstInteractions, HangJobs)

\* the queue with a poller that keeps ticking (setInterval, 98-102) and
\* pipeline runs that all terminate
FairSpec ==
  /\ Init
  /\ [][FairNext]_vars
  /\ WF_vars(PollerTick)
  /\ WF_vars(\E p \in Promises, ok \in BOOLEAN : Settle(p, ok))

(* ---------------- /ask with its own queue object (ask.ts) -------------- *)
\* the queue object under study has been used by an /ask invocation
Used == queue # <<>> \/ DOMAIN processing # {} \/ caller[1].pc # "idle"

\* ask.ts 31: const queueService = new SimpleQueueService().  The object of
\* the previous invocation stays alive through its timer and its pending
\* promises, but nothing of it is reachable from the new object: the model
\* sets it aside and goes on with the new, empty object.  Objects share no
\* state, so the steps of different objects need not be interleaved.
NewSimpleQueueService ==
  /\ Used
  /\ caller[1].pc \notin {"checked", "enqueued"}
  /\ Len(others) < MaxInstances - 1
  /\ others' = Append(others, [queue |-> queue, processing |-> processing])
  /\ queue' = <<>>
  /\ processing' = <<>>
  /\ isProcessing' = FALSE
  /\ pollers' = {}
  /\ caller' = [c \in Callers |-> IdleCaller]
  /\ UNCHANGED <<now, created, execs, persisted, pipe, db, added, search,
                 routing, prepared>>

\* the jobs held by a queue object that was set aside
HeldBy(o) == QueueIds(o.queue) \cup DOMAIN o.processing

\* a queue object that was set aside runs its job to the end (its poller
\* or its /ask flow), and the job leaves its queue and in-flight table
OtherSettles(k, ok) ==
  /\ k \in 1..Len(others)
  /\ HeldBy(others[k]) # {}
  /\ others' = [others EXCEPT ![k] = [queue |-> <<>>, processing |-> <<>>]]
  /\ execs' = [j \in JobIds |->
       IF j \notin HeldBy(others[k]) THEN execs[j]
       ELSE LET settled == IF ok THEN "fulfilled" ELSE "rejected" IN
            IF \E n \in 1..Len(execs[j]) : execs[j][n] = "running"
            THEN [n \in 1..Len(execs[j]) |->
                    IF execs[j][n] = "running" THEN settled ELSE execs[j][n]]
            ELSE Append(execs[j], settled)]
  /\ persisted' = [j \in JobIds |->
       IF j \in HeldBy(others[k]) /\ ok THEN persisted[j] + 1
       ELSE persisted[j]]
  /\ UNCHANGED <<now, created, queue, processing, isProcessing, pollers,
                 caller, pipe, db, added, search, routing, prepared>>

\* /ask invocations of one user in one guild, each on its own queue object
AskNext ==
  \/ NewSimpleQueueService
  \/ \E i \in BurstInteractions : ~Used /\ AskCheck(1, i)
  \/ AskEnqueue(1, MaxJobs)
  \/ AskProcessJob(1)
  \/ AskAbort(1)
  \/ Return(1)
  \/ PollerTick
  \/ \E p \in Promises, ok \in BOOLEAN : Settle(p, ok)
  \/ \E k \in 1..MaxInstances, ok \in BOOLEAN : OtherSettles(k, ok)
  \/ Tick

AskSpec == Init /\ [][AskNext]_vars

HangNext ==
  \/ QueueNext(BurstInteractions, HangJobs)
  \/ \E p \in Promises : ExternalCallHangs(p)

\* the queue with executions that may hang; an execution whose external calls
\* all return settles, because processQuestion makes at most maxRetries
\* attempts of finitely many calls
HangSpec ==
  /\ Init
  /\ [][HangNext]_vars
  /\ WF_vars(\E p \in Promises, ok \in BOOLEAN : Settle(p, ok))

\* one processQuestion call at a time, the queue left aside
PipelineSpec == Init /\ [][PipelineNext]_vars

EnqueueNext == \E options \in AddOptions : AddQAJob(options)

\* addQAJob calls alone, with every combination of options
EnqueueSpec == Init /\ [][EnqueueNext]_vars

\* searchSimilar calls alone
SearchSpec == Init /\ [][SearchNext]_vars

\* routeQuestion calls alone
RouterSpec == Init /\ [][RouterNext]_vars

\* prepareDocumentContext calls alone
PrepareSpec == Init /\ [][PrepareNext]_vars

TypeOK == now \in Nat

(* ------------------------------ properties ----------------------------- *)
Scopes == {"g1", "dm"}
NonExemptUsers == {i.userId : i \in Interactions} \ {adminUserId}
LiveJobs == QueueIds(queue) \cup DOMAIN processing
PairJobs(S, userId, guildId) ==
  {j \in S : created[j].userId = userId /\ created[j].guildId = guildId}
InWindow(j) == (now - created[j].createdAt) < oneMinute
Running(j) == {n \in 1..Len(execs[j]) : execs[j][n] \in {"running", "hung"}}
Finished(j) ==
  \E n \in 1..Len(execs[j]) : execs[j][n] \in {"fulfilled", "rejected"}
Hung(j) == \E n \in 1..Len(execs[j]) : execs[j][n] = "hung"
Exhausted(j) == \E n \in 1..Len(execs[j]) : execs[j][n] = "rejected"
Got(c) == caller[c].pc = "returned" /\ caller[c].result.kind # "none"

\* C1: for every job identifier at most one execution of the pipeline is in
\* progress, whatever processJob calls and poller ticks interleave.
C1_AtMostOneExecution ==
  \A j \in JobIds : Cardinality(Running(j)) <= 1

\* a processJob call has arrived while the job was executing, and waits
C1_Witness ==
  \E c \in Callers : /\ caller[c].pc = "awaitJob"
                     /\ ~caller[c].owner
                     /\ Running(caller[c].jobId) # {}

\* C2: a processJob call made while the job is in flight waits for the
\* execution in the in-flight table; callers of the same job receive the
\* identical value or failure, and the job's pipeline stores its messages and
\* usage record at most once.
C2_JoinersShareResult ==
  /\ \A c \in Callers : caller[c].pc = "awaitJob" =>
        /\ InFlight(caller[c].jobId)
        /\ processing[caller[c].jobId] = caller[c].promise
  /\ \A c1, c2 \in Callers :
        (Got(c1) /\ Got(c2) /\ caller[c1].result.job = caller[c2].result.job
           /\ caller[c1].result.kind # "null" /\ caller[c2].result.kind # "null")
        => caller[c1].result = caller[c2].result
  /\ \A j \in JobIds : persisted[j] <= 1

\* two callers hold the value of the same execution
C2_Witness ==
  \E c1, c2 \in Callers :
     /\ c1 # c2
     /\ Got(c1) /\ Got(c2)
     /\ caller[c1].result.kind = "ok"
     /\ caller[c1].result = caller[c2].result
     /\ persisted[caller[c1].result.job] = 1

\* C3: a job whose execution has succeeded or failed is in neither the
\* pending queue nor the in-flight table: the step that ends the execution
\* removes it from both.
C3_FinishedJobsRemoved ==
  \A j \in JobIds : Finished(j) =>
     j \notin QueueIds(queue) /\ j \notin DOMAIN processing

\* one job has succeeded and another has failed terminally
C3_Witness ==
  \E j1, j2 \in JobIds : /\ execs[j1] = <<"fulfilled">>
                         /\ execs[j2] = <<"rejected">>

\* C4: processQuestion returns on the first attempt that succeeds, never
\* starts a 4th attempt, and when every attempt fails it fails after exactly 3
\* attempts with one error carrying the attempt count and the message of the
\* last underlying error.
C4_ExactlyThreeAttempts ==
  /\ pipe.attempt <= 3
  /\ pipe.stage = "done" =>
        /\ pipe.outcome.kind = "result"
        /\ pipe.failures = pipe.attempt - 1
  /\ pipe.stage = "failed" =>
        /\ pipe.attempt = 3
        /\ pipe.failures = 3
        /\ pipe.outcome.kind = "error"
        /\ pipe.outcome.attempts = 3
        /\ pipe.outcome.cause = pipe.lastThrown.message

\* all three attempts have failed, the last one with message E2
C4_Witness ==
  /\ pipe.stage = "failed"
  /\ pipe.failures = 3
  /\ pipe.outcome.cause = "E2"

\* C5 (amended): storage and usage logging happen only on the attempt that
\* succeeds, after generation and validation; a failed attempt writes
\* nothing; no call stores or logs more than once; a successful call makes
\* exactly one usage-logging call, which leaves at most one record.
C5_WritesOnlyOnSuccess ==
  /\ pipe.stage \notin {"log", "done"} =>
        /\ pipe.storeCalls = 0
        /\ db.messages = 0
        /\ db.conversations = 0
  /\ pipe.stage # "done" => pipe.logCalls = 0 /\ db.usageLogs = 0
  /\ pipe.storeCalls <= 1 /\ db.messages <= 2 /\ db.conversations <= 1
  /\ pipe.logCalls <= 1 /\ db.usageLogs <= 1
  /\ pipe.stage = "done" => pipe.logCalls = 1

\* C5 as claimed: in addition, a successful call writes exactly one
\* telemetry record.
C5_ExactlyOneRecord ==
  /\ C5_WritesOnlyOnSuccess
  /\ pipe.stage = "done" => db.usageLogs = 1

\* a call that succeeded after a failed attempt has stored and logged once
C5_Witness ==
  /\ pipe.stage = "done"
  /\ pipe.failures >= 1
  /\ pipe.storeCalls = 1
  /\ db.messages = 2
  /\ db.usageLogs = 1

\* C6: for every non-exempt (user, scope) and every 60-second window, at
\* most 3 of the pair's admitted jobs have their creation time in the window.
C6_WindowCap ==
  \A u \in NonExemptUsers, g \in Scopes :
     \A j0 \in PairJobs(1..Len(created), u, g) :
        Cardinality({j \in PairJobs(1..Len(created), u, g) :
                       /\ created[j].createdAt >= created[j0].createdAt
                       /\ created[j].createdAt <
                            created[j0].createdAt + oneMinute}) <= 3

\* C7: when 3 jobs of a non-exempt (user, scope) enqueued within the last 60
\* seconds are pending or in flight, checkUserRateLimit refuses with
\* remainingRequests 0 and a resetTime after the current time; the /ask flow
\* that is refused holds such an answer.
C7_FullWindowRefused ==
  /\ \A u \in NonExemptUsers, g \in Scopes :
        Cardinality({j \in PairJobs(LiveJobs, u, g) : InWindow(j)}) >= 3
        => /\ ~checkUserRateLimit(u, g).allowed
           /\ checkUserRateLimit(u, g).remainingRequests = 0
           /\ checkUserRateLimit(u, g).resetTime > now
  /\ \A c \in Callers : caller[c].pc = "rejected" =>
        /\ ~caller[c].rateLimit.allowed
        /\ caller[c].rateLimit.remainingRequests = 0

\* a flow was refused while 3 jobs of its pair, all pending, are in the window
C7_Witness ==
  \E c \in Callers :
     /\ caller[c].pc = "rejected"
     /\ caller[c].rateLimit.resetTime = now + oneMinute
     /\ DOMAIN processing = {}
     /\ Cardinality({j \in PairJobs(LiveJobs, caller[c].userId,
                                    caller[c].guildId) : InWindow(j)}) = 3

\* C8: once 60 seconds have passed since every job of a non-exempt (user,
\* scope) was created, checkUserRateLimit allows with the full quota of 3,
\* whether those jobs are pending, in flight or finished.
C8_QuotaRestored ==
  \A u \in NonExemptUsers, g \in Scopes :
     (/\ PairJobs(1..Len(created), u, g) # {}
      /\ \A j \in PairJobs(1..Len(created), u, g) : ~InWindow(j))
     => /\ checkUserRateLimit(u, g).allowed
        /\ checkUserRateLimit(u, g).remainingRequests = 3

\* C9: no interleaving of check-then-enqueue sequences lets the pending plus
\* in-flight jobs of a non-exempt (user, scope) created within the window
\* exceed 3.
C9_NoLostUpdate ==
  \A u \in NonExemptUsers, g \in Scopes :
     Cardinality({j \in PairJobs(LiveJobs, u, g) : InWindow(j)}) <= 3

\* C10: whoever calls processJob for a job whose pipeline exhausted its
\* retries receives that failure, not null and not a result.
C10_FailureSurfaced ==
  \A c \in Callers :
     (Got(c) /\ Exhausted(caller[c].result.job))
     => caller[c].result.kind = "error"

\* the options of the last addQAJob call and the job it built
LastAdded == added[Len(added)]
LastJob == created[Len(created)]
QueuePos(jobId) == CHOOSE i \in 1..Len(queue) : queue[i].jobId = jobId

\* C11 (amended): after any sequence of addQAJob calls the queue is in
\* descending priority order; among jobs of equal priority, a job enqueued
\* without highPriority is behind every job enqueued before it, and a job
\* enqueued with highPriority is ahead of every job enqueued before it.
C11_PriorityOrderHeadOfLine ==
  \A i, k \in 1..Len(queue) : i < k =>
     \/ queue[i].priority > queue[k].priority
     \/ /\ queue[i].priority = queue[k].priority
        /\ IF queue[i].jobId < queue[k].jobId
           THEN ~added[queue[k].jobId].highPriority
           ELSE added[queue[i].jobId].highPriority

\* C11 as claimed: descending priority order, and jobs of equal priority in
\* the order in which they were enqueued, with or without highPriority.
C11_PriorityThenInsertionOrder ==
  \A i, k \in 1..Len(queue) : i < k =>
     \/ queue[i].priority > queue[k].priority
     \/ /\ queue[i].priority = queue[k].priority
        /\ queue[i].jobId < queue[k].jobId

\* three jobs of priority 1: the second, enqueued without highPriority, is
\* behind the first; the third, enqueued with highPriority, is ahead of both
C11_Witness ==
  /\ Len(queue) = 3
  /\ \A i \in 1..3 : queue[i].priority = 1
  /\ ~added[2].highPriority
  /\ added[3].highPriority
  /\ <<queue[1].jobId, queue[2].jobId, queue[3].jobId>> = <<3, 1, 2>>

\* C12 (amended): addQAJob with highPriority set gives the new job the
\* explicit priority when one other than 0 is given and priority 1 otherwise,
\* and leaves it ahead of every pending job whose priority is not higher.
C12_HighPriorityAheadOfEquals ==
  (Len(added) > 0 /\ LastAdded.highPriority) =>
     /\ LastJob.priority = IF LastAdded.priority # 0 THEN LastAdded.priority
                           ELSE 1
     /\ \A i \in 1..Len(queue) :
           i < QueuePos(LastJob.jobId) => queue[i].priority > LastJob.priority

\* C12 as claimed: the new job is ahead of every job already pending and
\* its priority is above 0, whatever explicit priority was given.
C12_HighPriorityFirst ==
  (Len(added) > 0 /\ LastAdded.highPriority) =>
     /\ LastJob.priority > 0
     /\ queue[1].jobId = LastJob.jobId

\* a highPriority job without explicit priority was added to a queue holding
\* a job of priority 1 and a job of priority 2: it is between them
C12_Witness ==
  /\ Len(queue) = 3
  /\ LastAdded = [priority |-> 0, highPriority |-> TRUE]
  /\ LastJob.priority = 1
  /\ queue[2].jobId = LastJob.jobId
  /\ queue[1].priority = 2
  /\ queue[3].priority = 1

\* C13: every result returned by processQuestion has a confidence within
\* [0, 1], whatever the validation model puts in its confidence field.
C13_ConfidenceInUnitInterval ==
  pipe.stage = "done" => pipe.outcome.confidence \in 0..100

\* the stages whose values an attempt holds once the search has returned
AfterSearch == {"context", "generate", "validate", "store", "log", "done"}

\* C14: an attempt starts at question improvement holding no value of an
\* earlier attempt, and at every later stage the improved question, routing,
\* embedding and search results it holds were made by its own run of those
\* stages; no attempt resumes in the middle of the pipeline.
C14_WholePipelineRetried ==
  LET o == pipe.outputs
      a == pipe.attempt
  IN /\ pipe.stage \in {"improve", "improveDelay"} => o = NoOutputs
     /\ pipe.stage = "route" =>
           o = [improve |-> a, route |-> 0, embed |-> 0, search |-> 0]
     /\ pipe.stage = "embed" =>
           o = [improve |-> a, route |-> a, embed |-> 0, search |-> 0]
     /\ pipe.stage = "search" =>
           o = [improve |-> a, route |-> a, embed |-> a, search |-> 0]
     /\ pipe.stage \in AfterSearch =>
           o = [improve |-> a, route |-> a, embed |-> a, search |-> a]
     /\ pipe.stage = "loop" /\ a > 0 => pipe.failures = a

\* the third attempt succeeds after two failed attempts, every stage rerun
C14_Witness ==
  /\ pipe.stage = "done"
  /\ pipe.attempt = 3
  /\ pipe.failures = 2
  /\ pipe.outputs = [improve |-> 3, route |-> 3, embed |-> 3, search |-> 3]

\* C15: question improvement is tried at most 2 times per attempt with a
\* 500 ms pause between the tries; when both fail the attempt goes on with
\* the original question; a failed improvement neither fails the attempt nor
\* uses up one of the 3 attempts.
C15_ImprovementDegrades ==
  /\ pipe.improveTry <= 2
  /\ pipe.improveFailed <= 2
  /\ pipe.stage = "improveDelay" =>
        pipe.delayMs = 500 /\ pipe.improveTry = 1 /\ pipe.improveFailed = 1
  /\ pipe.stage \in {"improve", "improveDelay", "route"} =>
        pipe.failures = pipe.attempt - 1
  /\ pipe.outputs.improve # 0 => (pipe.improved <=> pipe.improveFailed < 2)
  /\ pipe.stage \in {"backoff", "failed"} =>
        pipe.outputs.improve = pipe.attempt

\* both tries failed in the first attempt, which succeeded all the same
C15_Witness ==
  /\ pipe.stage = "done"
  /\ pipe.attempt = 1
  /\ pipe.failures = 0
  /\ pipe.improveFailed = 2
  /\ ~pipe.improved

\* the namespaces whose query threw
Thrown == {n \in 1..Len(search.results) : search.results[n].throws}
\* the same queries, those that threw returning no match instead
WithoutThrown ==
  [n \in 1..Len(search.results) |->
     IF n \in Thrown THEN [throws |-> FALSE, scores |-> <<>>]
     ELSE search.results[n]]
SortedByScore(ms) ==
  \A i, k \in 1..Len(ms) : i < k => ms[i].score >= ms[k].score

\* C16: when the query of a namespace throws, searchSimilar does not fail:
\* all N queries settle and the result is what the merge (sort by score,
\* truncate to topK, drop below minScore) yields from the other namespaces.
C16_FailedNamespaceIsEmpty ==
  (search.called /\ Thrown # {}) =>
     /\ ~search.out.rejected
     /\ search.out.settled = Len(search.results)
     /\ search.out.matches =
           searchSimilar(WithoutThrown, search.topK, search.minScore).matches
     /\ \A i \in 1..Len(search.out.matches) :
           search.out.matches[i].namespace \notin Thrown
     /\ SortedByScore(search.out.matches)

\* of three namespaces the second threw; the four matches of the other two
\* are returned
C16_Witness ==
  /\ search.called
  /\ Len(search.results) = 3
  /\ Thrown = {2}
  /\ Len(search.out.matches) = 4
  /\ {search.out.matches[i].namespace : i \in 1..4} = {1, 3}

\* C17: the matches searchSimilar returns to processQuestion are sorted by
\* descending score and at most topK = 5, and every result of
\* processQuestion has those matches, at most 5, as its sources.
C17_SortedAtMostTopK ==
  /\ Len(pipe.sources) <= 5
  /\ \A i, k \in 1..Len(pipe.sources) :
        i < k => pipe.sources[i] >= pipe.sources[k]
  /\ pipe.stage = "done" =>
        /\ pipe.outcome.sources = pipe.sources
        /\ Len(pipe.outcome.sources) <= 5

\* more than 5 matches were found and the result has 5 sources
C17_Witness ==
  /\ pipe.stage = "done"
  /\ pipe.cut
  /\ Len(pipe.outcome.sources) = 5

\* C18: searchSimilar never returns a match whose score is below minScore.
C18_NoMatchBelowMinScore ==
  search.called =>
     \A i \in 1..Len(search.out.matches) :
        search.out.matches[i].score >= search.minScore

\* a namespace threw, another returned a match below the floor and one at
\* the floor within the first topK; only the latter is returned
C18_Witness ==
  /\ search.called
  /\ search.topK = 5
  /\ search.minScore = 2
  /\ Thrown # {}
  /\ \E n \in 1..Len(search.results) : search.results[n].scores = <<1, 2>>
  /\ Len(search.out.matches) = 1
  /\ search.out.matches[1].score = 2

\* the classifier's list holds no name of the catalog
NoValidName ==
  \A i \in 1..Len(routing.response.namespaces) :
     routing.response.namespaces[i] \notin Catalog

\* C19: routeQuestion returns the fallback decision, namespaces [unit-3] and
\* confidence 0.3, when the classifier's list is empty or holds only names
\* outside the catalog, when the response cannot be parsed and when the
\* call fails; it always returns a decision.
C19_FallbackDecision ==
  routing.called =>
     /\ Len(routing.out.namespaces) >= 1
     /\ (routing.response.kind # "json" \/ NoValidName) =>
           /\ routing.out.namespaces = <<"unit-3">>
           /\ routing.out.confidence = 30

\* the classifier named two units that do not exist
C19_Witness ==
  /\ routing.called
  /\ routing.response.kind = "json"
  /\ routing.response.namespaces = <<"unit-10", "unit-10">>
  /\ routing.response.confidence = 80
  /\ routing.out = parseFallback

\* C20: every decision of routeQuestion holds between 1 and 3 names, each
\* of the catalog.
C20_OneToThreeCatalogNames ==
  routing.called =>
     /\ Len(routing.out.namespaces) \in 1..3
     /\ \A i \in 1..Len(routing.out.namespaces) :
           routing.out.namespaces[i] \in Catalog

\* C21: the confidence of every decision routeQuestion returns is a number in
\* [0, 1], whatever the classifier puts in its confidence field: a value below
\* 0, a value above 1, no value, or a value that is not a number.
C21_RoutingConfidenceClamped ==
  routing.called =>
     /\ ~routing.out.confidenceIsNaN
     /\ routing.out.confidence \in 0..100

\* C22: a job whose execution exceeds its time budget, because an external
\* call never returns, is eventually marked failed and its identifier leaves
\* the in-flight table: no job stays in flight forever.
C22_HungJobEventuallyReleased ==
  \A j \in JobIds : (Hung(j) /\ InFlight(j)) ~> ~InFlight(j)

\* C23: when the similarity query of every target namespace fails in an
\* attempt, the attempt counts as failed and is retried with backoff: such an
\* attempt never gets past answer generation.
C23_TotalSearchFailureFailsAttempt ==
  pipe.searchFailed => pipe.stage \notin {"validate", "store", "log", "done"}

C26_CountsDistinctLiveJobs ==
  \A u \in NonExemptUsers, g \in Scopes :
     LET distinct == Cardinality({j \in PairJobs(LiveJobs, u, g) :
                                    InWindow(j)})
     IN /\ totalJobs(u, g) = distinct
        /\ checkUserRateLimit(u, g).allowed =>
              checkUserRateLimit(u, g).remainingRequests = 3 - distinct

\* C27: the result of a request with conversation memory enabled carries the
\* identifier of the conversation in which the question and the answer were
\* stored, both when an existing conversation was used and when a new one
\* was created.
C27_ResultNamesStoredConversation ==
  (/\ pipe.stage = "done"
   /\ pipe.request.contextMemory
   /\ pipe.storedIn # "none"
   /\ db.messages = 2)
  => pipe.outcome.conversationId = pipe.storedIn

\* C28: when the validation response cannot be parsed, or the validation call
\* fails, validateAnswer returns confidence 0.5 and the request succeeds with
\* that confidence: a validation failure never fails the attempt and never
\* causes a retry.
C28_ValidationFailureGivesHalf ==
  pipe.evaluated \in {"badJson", "callFails"} =>
     /\ pipe.stage \in {"store", "log", "done"}
     /\ pipe.confidence = 50
     /\ pipe.failures = pipe.attempt - 1
     /\ pipe.stage = "done" =>
           /\ pipe.outcome.kind = "result"
           /\ pipe.outcome.confidence = 50

\* a request whose validation response did not parse returned its answer
C28_Witness ==
  /\ pipe.stage = "done"
  /\ pipe.evaluated = "badJson"
  /\ pipe.outcome.kind = "result"
  /\ pipe.outcome.confidence = 50

\* the pieces of a string are all empty
EmptyString(str) == \A i \in 1..Len(str) : str[i] = ""

C30_BackoffDelays ==
  /\ pipe.stage = "backoff" =>
        /\ pipe.attempt \in {1, 2}
        /\ pipe.failures = pipe.attempt
        /\ pipe.delayMs = (IF pipe.attempt = 1 THEN 1000 ELSE 2000)
  /\ pipe.stage = "failed" =>
        /\ pipe.attempt = 3
        /\ pipe.failures = 3
        /\ pipe.delayMs = 0

\* the wait after the second failed attempt
C30_Witness ==
  /\ pipe.stage = "backoff"
  /\ pipe.attempt = 2
  /\ pipe.failures = 2
  /\ pipe.delayMs = 2000

\* the stages of one attempt in the order of the try block (73-171); the
\* pause between two improvement tries belongs to the improvement stage
StageOrder == <<"improve", "route", "embed", "search", "context", "generate",
                "validate", "store", "log", "done">>
StagePos(stage) ==
  IF stage = "improveDelay" THEN 1
  ELSE CHOOSE i \in 1..Len(StageOrder) : StageOrder[i] = stage
InAttempt(stage) ==
  stage = "improveDelay" \/ \E i \in 1..Len(StageOrder) : StageOrder[i] = stage
\* a step inside one attempt stays in its stage or enters the next one
StageStep ==
  (/\ InAttempt(pipe.stage) /\ InAttempt(pipe'.stage)
   /\ pipe'.attempt = pipe.attempt)
  => StagePos(pipe'.stage) \in {StagePos(pipe.stage), StagePos(pipe.stage) + 1}
\* a stage that has been entered holds the outputs of all stages before it,
\* made in the same attempt
StageOutputs ==
  LET a == pipe.attempt
      at == IF InAttempt(pipe.stage) THEN StagePos(pipe.stage) ELSE 0
  IN /\ at >= 2 => pipe.outputs.improve = a
     /\ at >= 3 => pipe.outputs.route = a
     /\ at >= 4 => pipe.outputs.embed = a
     /\ at >= 5 => pipe.outputs.search = a
     /\ at >= 6 => pipe.contextOf = a
     /\ at >= 7 => pipe.answerOf = a
     /\ at >= 8 => pipe.evaluated # "none"
     /\ (pipe.storeCalls > 0 \/ pipe.logCalls > 0) =>
           /\ pipe.answerOf = a
           /\ pipe.evaluated # "none"

\* C31: within every attempt the stages run strictly in the order improve,
\* route, embed, search, build context, generate, validate, persist, done: no
\* stage starts before the previous one has produced its output, and
\* persistence never precedes a successful generation and validation.
C31_StagesInOrder == [][StageStep]_vars /\ []StageOutputs

\* the second attempt ran every stage and persisted
C31_Witness ==
  /\ pipe.stage = "done"
  /\ pipe.attempt = 2
  /\ pipe.failures = 1
  /\ pipe.contextOf = 2
  /\ pipe.answerOf = 2
  /\ pipe.storeCalls = 1
  /\ pipe.logCalls = 1

\* the jobs pending or in flight in any queue object
AllLiveJobs == LiveJobs \cup UNION {HeldBy(others[k]) : k \in 1..Len(others)}

\* C32: in the /ask flow, a non-exempt user's 4th question within 60 seconds
\* in the same scope, asked while the previous 3 are still pending or in
\* flight, is rejected by the rate-limit check before any job is enqueued:
\* no invocation is admitted while 3 jobs of its (user, scope) created within
\* the window are live.
C32_FourthAskRejected ==
  \A c \in Callers :
     (/\ caller[c].pc \in {"checked", "enqueued"}
      /\ caller[c].userId \in NonExemptUsers)
     => Cardinality({j \in PairJobs(AllLiveJobs, caller[c].userId,
                                     caller[c].guildId) :
                       InWindow(j) /\ j # caller[c].jobId}) < 3

\* C33: a caller that enqueues a job with addQAJob and later calls processJob
\* with the returned identifier obtains that job's result or its failure,
\* never null, under every interleaving with the background poller.
C33_EnqueuerNeverGetsNull ==
  \A c \in Callers : Got(c) => caller[c].result.kind # "null"

\* C34: over its whole lifetime each job's pipeline is executed at most once:
\* after a job has completed or failed, processJob on its identifier returns
\* null and no poller tick executes it again.
C34_ExecutedAtMostOnce ==
  \A j \in JobIds :
     /\ Len(execs[j]) <= 1
     /\ Finished(j) =>
           /\ processJobEnter(j).kind = "null"
           /\ \A i \in 1..Len(queue) : queue[i].jobId # j

\* processJob was called for a job that had finished, and returned null
C34_Witness ==
  \E c \in Callers :
     /\ Got(c)
     /\ caller[c].result.kind = "null"
     /\ Finished(caller[c].result.job)
     /\ Len(execs[caller[c].result.job]) = 1

\* a poller activation begins to wait for a job only when no other activation
\* waits, and the job is the head of the queue and was not in flight
PollerStartsHead ==
  pollers' # pollers /\ pollers' \ pollers # {} =>
     /\ pollers = {}
     /\ ~isProcessing
     /\ Len(queue) > 0
     /\ ~InFlight(queue[1].jobId)
     /\ \A a \in pollers' : a.jobId = queue[1].jobId /\ a.owner
     /\ InFlight(queue[1].jobId)'
\* at most one activation waits, for an execution it started itself
OnePollerJob ==
  /\ Cardinality(pollers) <= 1
  /\ isProcessing <=> pollers # {}
  /\ \A a \in pollers : a.owner /\ Running(a.jobId) # {}

\* C35: the background poller has at most one poller-started job running at
\* a time, only ever starts the job at the head of the priority-ordered
\* pending queue, and starts nothing on a tick when that head job is already
\* in flight.
C35_PollerOneHeadJob == [][PollerStartsHead]_vars /\ []OnePollerJob

\* the poller runs the head job while another job waits behind it
C35_Witness ==
  /\ Len(queue) >= 2
  /\ \E a \in pollers : a.jobId = queue[1].jobId /\ Running(a.jobId) # {}

\* C36: in every reachable state every job identifier in the in-flight table
\* is also present in the pending queue, so getQueueStats always reports
\* waiting >= active.
C36_InFlightJobsStayQueued ==
  /\ DOMAIN processing \subseteq QueueIds(queue)
  /\ getQueueStats.waiting >= getQueueStats.active

\* two jobs are in flight, both still in the queue
C36_Witness ==
  /\ getQueueStats.active = 2
  /\ getQueueStats.waiting = 2
  /\ DOMAIN processing = QueueIds(queue)

\* C37: every job that is enqueued is eventually executed and removed from
\* the pending queue, even if no caller ever calls processJob for it, when
\* the poller keeps ticking, every pipeline run terminates and finitely many
\* jobs are enqueued.
C37_EveryJobEventuallyRuns ==
  \A j \in JobIds :
     (j \in QueueIds(queue)) ~> (Finished(j) /\ j \notin QueueIds(queue))

\* the poller has run a job to its end before the flow that enqueued it
\* called processJob
C37_Witness ==
  \E c \in Callers :
     /\ caller[c].pc = "enqueued"
     /\ Finished(caller[c].jobId)
     /\ caller[c].jobId \notin QueueIds(queue)

RECURSIVE Sum(_)
Sum(seq) == IF seq = <<>> THEN 0 ELSE Head(seq) + Sum(Tail(seq))
\* t is the least number of 4-character tokens that cover length characters
CeilOfQuarter(t, length) == 4 * t >= length /\ 4 * (t - 1) < length

\* C38 (amended): the embeddingTokens reported in a result is the sum of the
\* local estimates ceil(length / 4) of every attempt whose embedding step
\* succeeded, the last of them for the improved question of the attempt that
\* succeeded; promptTokens and completionTokens equal the usage of the single
\* successful generation call.
C38_TokensAccumulateOverAttempts ==
  pipe.stage = "done" =>
     LET usage == pipe.outcome.usage IN
     /\ usage.embeddingTokens = Sum(pipe.embedLog)
     /\ Len(pipe.embedLog) \in 1..pipe.attempt
     /\ CeilOfQuarter(pipe.embedLog[Len(pipe.embedLog)],
                      improvedQuestionLength(pipe))
     /\ usage.promptTokens = GenerationUsage.prompt_tokens
     /\ usage.completionTokens = GenerationUsage.completion_tokens
     /\ usage.totalTokens = usage.promptTokens + usage.completionTokens

\* C38: the embeddingTokens reported in a result equals the local estimate
\* ceil(length / 4) for the improved question embedded in the attempt that
\* succeeded, however many earlier attempts failed after their embedding
\* step; promptTokens and completionTokens equal the usage of the single
\* successful generation call.
C38_TokensOfSuccessfulAttempt ==
  pipe.stage = "done" =>
     LET usage == pipe.outcome.usage IN
     /\ CeilOfQuarter(usage.embeddingTokens, improvedQuestionLength(pipe))
     /\ usage.promptTokens = GenerationUsage.prompt_tokens
     /\ usage.completionTokens = GenerationUsage.completion_tokens

\* the third attempt succeeded after two attempts that failed after their
\* embedding step
C38_Witness ==
  /\ pipe.stage = "done"
  /\ pipe.attempt = 3
  /\ Len(pipe.embedLog) = 3
  /\ pipe.outcome.usage.embeddingTokens = Sum(pipe.embedLog)
  /\ pipe.outcome.usage.embeddingTokens
        > estimateTokenCount(improvedQuestionLength(pipe))

\* the matches the namespace queries of the call returned, in namespace order
AllMatches ==
  Flat([n \in 1..Len(search.results) |->
          namespaceQuery(n, search.results[n]).matches])
\* the first match of ms with the highest score
BestIndex(ms) ==
  CHOOSE i \in 1..Len(ms) :
     /\ \A k \in 1..Len(ms) : ms[k].score <= ms[i].score
     /\ \A k \in 1..(i - 1) : ms[k].score < ms[i].score
Without(ms, i) == SubSeq(ms, 1, i - 1) \o SubSeq(ms, i + 1, Len(ms))
\* the k best matches of ms by descending score, ties in their order in ms
RECURSIVE TopK(_, _)
TopK(ms, k) ==
  IF k = 0 \/ ms = <<>> THEN <<>>
  ELSE <<ms[BestIndex(ms)]>> \o TopK(Without(ms, BestIndex(ms)), k - 1)
\* the reference: drop the matches below minScore, then take the topK
ReferenceMerge(ms, topK, minScore) ==
  TopK(SelectSeq(ms, LAMBDA m : m.score >= minScore), topK)

\* C39: the two-stage merge of searchSimilar (sort descending, take the first
\* topK, then drop matches below minScore) returns the same list as the
\* reference that first drops matches below minScore and then takes the topK
\* by descending score, for every set of per-namespace matches.
C39_MergeEqualsReference ==
  search.called =>
     search.out.matches = ReferenceMerge(AllMatches, search.topK,
                                         search.minScore)

\* matches below the floor are found in a namespace searched before the one
\* with the matches above it, and more matches pass the floor than topK
C39_Witness ==
  /\ search.called
  /\ search.topK = 1
  /\ search.minScore = 50
  /\ Len(AllMatches) >= 3
  /\ AllMatches[1].score < search.minScore
  /\ Len(SelectSeq(AllMatches, LAMBDA m : m.score >= search.minScore)) >= 2
  /\ Len(search.out.matches) = 1

\* C40: when the classifier's response parses, names at least one catalog
\* namespace and gives a numeric confidence c with 0 <= c <= 1, the routing
\* decision's confidence equals c (including c = 0) and its namespaces are
\* exactly the catalog names of the response in their original order.
C40_ValidResponseKept ==
  (/\ routing.called
   /\ routing.response.kind = "json"
   /\ ~NoValidName
   /\ routing.response.hasConfidence
   /\ routing.response.numeric
   /\ routing.response.confidence \in 0..100)
  => /\ ~routing.out.confidenceIsNaN
     /\ routing.out.confidence = routing.response.confidence
     /\ routing.out.namespaces =
           SelectSeq(routing.response.namespaces, LAMBDA ns : ns \in Catalog)

==============================================================================
